---- MODULE Spec2Model ----
(***************************************************************************)
(* Model of the orchestration core of voca-ai-engine:                      *)
(*   - AgentOrchestrator (core/orchestrator/agent_orchestrator.py):        *)
(*     agent creation over channels, lifecycle operations, status and      *)
(*     provisioning-log reads, message routing to the backend handlers;    *)
(*   - the message routing engine (api/routes/message_routing.py) and the  *)
(*     per-vendor platform webhooks (api/routes/webhooks.py);              *)
(*   - the provisioning endpoint (api/routes/agent_provisioning.py);       *)
(*   - ContextManager (core/context_manager.py).                           *)
(*                                                                         *)
(* The orchestrator keeps no agent store: get_agent answers from a fixed   *)
(* record, and every handler works on a fresh dict.  The state of the      *)
(* model is therefore the state of the one external collaborator whose     *)
(* state the code reads back (the VocaOS pool listing), and the handler    *)
(* invocation under observation: its inputs, the calls it made to the      *)
(* collaborators, and the response it gave.  Handlers share no state, so   *)
(* invocations are observed one at a time (specification Spec).            *)
(*                                                                         *)
(* Specification LoopSpec observes several requests served by one event    *)
(* loop: the requests suspended at an await (inflight) and the steps taken *)
(* so far, in order (trace).                                               *)
(*                                                                         *)
(* Specification ConnectSpec is the voca-connect service                   *)
(* (services/voca-connect/main.py), whose state is the AWS account it      *)
(* provisions into (aws).                                                  *)
(*                                                                         *)
(* Python strings that the code tests for None / emptiness or builds with  *)
(* f-strings are sequences of tokens; None is the reserved sequence None.  *)
(***************************************************************************)
EXTENDS Integers, Sequences, FiniteSets, TLC

VARIABLES
    vocaos,     \* VocaOS: what GET /voca-os/api/v1/pools currently answers: a failure,
                \* or a listing, a sequence of pools, each pool the sequence of the
                \* agentId of its runtimes
    last,       \* the handler invocation under observation: its inputs, the calls it
                \* made to the collaborators and its response; Idle between invocations
    inflight,   \* event loop: the requests suspended at an await, each with its number
    trace,      \* event loop: the steps taken so far, in the order they ran
    aws         \* voca-connect: the AWS resources the service has created and not
                \* deleted (Connect instances, contact flows, phone numbers, functions)

vars == <<vocaos, last, inflight, trace, aws>>

----------------------------------------------------------------------------
(* Bounds *)

MaxChannels == 2     \* channels listed in one create / provision request
MaxPools == 2        \* pools in a VocaOS pool listing
MaxRuntimes == 2     \* runtimes in a VocaOS pool listing, over all its pools
MaxBatch == 2        \* messages in one platform webhook payload
MaxRequests == 3     \* requests one run of the event loop serves

----------------------------------------------------------------------------
(* Python values *)

None == <<"<None>">>

\* truthiness of an Optional[str]
Truthy(x) == x # None /\ x # <<>>

\* Python `a or b`
PyOr(a, b) == IF Truthy(a) THEN a ELSE b

\* Python None where the code expects a dict (Optional[Dict])
Nothing == [none |-> TRUE]

\* the k-th value drawn from uuid.uuid4() by one handler invocation
uuid4(k) == <<"uuid", ToString(k)>>

BoundedSeq(S, n) == UNION {[1..m -> S] : m \in 0..n}

----------------------------------------------------------------------------
(* Agent and channel vocabulary: api/models/agent.py *)

AgentStatus == {"draft", "provisioning", "active", "paused", "stopped", "error"}

ChannelType == {"voice", "sms", "whatsapp", "instagram", "twitter", "facebook"}

MockAgentId == <<"mock-agent-1">>

\* agent ids the lifecycle handlers are called with
LifecycleIds == {MockAgentId, uuid4(0), <<"unknown-agent">>}

----------------------------------------------------------------------------
(* AWSConnectProvisioner.provision_instance: four ordered steps; the first   *)
(* two call the Connect client and can raise, the last two are constants.    *)
(* failAt = 0: no step raises; 1: create_instance raises; 2:                 *)
(* create_contact_flow raises.                                               *)

ConnectFailures == 0..2

provision_instance(agent_config, failAt) ==
    IF failAt = 1
    THEN [raised |-> TRUE, steps |-> <<"create_instance">>, info |-> Nothing]
    ELSE IF failAt = 2
    THEN [raised |-> TRUE, steps |-> <<"create_instance", "create_contact_flow">>,
          info |-> Nothing]
    ELSE [raised |-> FALSE,
          steps |-> <<"create_instance", "create_contact_flow",
                      "assign_phone_number", "deploy_lambda_functions">>,
          info |-> [instance_id |-> <<"instance-">> \o agent_config.agent_id,
                    status |-> "provisioned"]]

(* ElizaOSManager.create_agent: builds the character, writes the character   *)
(* file (which can raise), configures the plugin, starts the agent.          *)
(* failAt = 0: nothing raises; 1: writing the character file raises.         *)

ElizaFailures == 0..1

create_agent(agent_config, failAt) ==
    IF failAt = 1
    THEN [raised |-> TRUE, steps |-> <<"create_elizaos_agent">>, info |-> Nothing]
    ELSE [raised |-> FALSE,
          steps |-> <<"create_elizaos_agent", "configure_social_plugins", "start_agent">>,
          info |-> [agent_id |-> <<"elizaos-agent-">> \o agent_config.agent_id,
                    status |-> "active"]]

\* the backend a channel type is set up through, and the failures it can show
BackendOf(channel_type) ==
    IF channel_type \in {"voice", "sms"} THEN "aws_connect" ELSE "elizaos"

FailuresOf(channel_type) ==
    IF channel_type \in {"voice", "sms"} THEN ConnectFailures ELSE ElizaFailures

----------------------------------------------------------------------------
(* AgentOrchestrator._setup_channel: a new channel id, then the backend of   *)
(* the channel type; any exception is logged and re-raised.                  *)

setup_channel(agent_id, channel_type, channel_id, failAt) ==
    LET r == IF channel_type \in {"voice", "sms"}
             THEN provision_instance([agent_id |-> agent_id,
                                      channel_type |-> channel_type], failAt)
             ELSE create_agent([agent_id |-> agent_id,
                                channel_type |-> channel_type], failAt)
    IN  [raised  |-> r.raised,
         call    |-> [backend |-> BackendOf(channel_type),
                      channel_type |-> channel_type, raised |-> r.raised,
                      steps |-> r.steps],
         channel |-> IF r.raised THEN Nothing
                     ELSE [id |-> channel_id, agent_id |-> agent_id,
                           channel_type |-> channel_type, status |-> "active",
                           external_id |-> IF channel_type \in {"voice", "sms"}
                                           THEN r.info.instance_id
                                           ELSE r.info.agent_id]]

(* The loop of create_multi_channel_agent over agent_config["channels"],     *)
(* from position i on: the first exception leaves the loop.                  *)

RECURSIVE setup_channels(_, _, _, _, _)
setup_channels(agent_id, channels, failAt, i, acc) ==
    IF i > Len(channels) THEN acc
    ELSE LET r == setup_channel(agent_id, channels[i], uuid4(i), failAt[i])
         IN  IF r.raised
             THEN [raised |-> TRUE, channels |-> acc.channels,
                   calls |-> Append(acc.calls, r.call)]
             ELSE setup_channels(agent_id, channels, failAt, i + 1,
                                 [raised |-> FALSE,
                                  channels |-> Append(acc.channels, r.channel),
                                  calls |-> Append(acc.calls, r.call)])

(* AgentOrchestrator.create_multi_channel_agent.  statuses is the sequence   *)
(* of values agent["status"] takes; on an exception nothing is returned.     *)

create_multi_channel_agent(agent_config, failAt) ==
    LET agent_id == uuid4(0)
        r == setup_channels(agent_id, agent_config.channels, failAt, 1,
                            [raised |-> FALSE, channels |-> <<>>, calls |-> <<>>])
    IN  IF r.raised
        THEN [raised |-> TRUE, agent_id |-> agent_id, agent |-> Nothing,
              statuses |-> <<"draft">>, calls |-> r.calls]
        ELSE [raised |-> FALSE, agent_id |-> agent_id,
              agent |-> [id |-> agent_id, status |-> "provisioning",
                         channels |-> r.channels],
              statuses |-> <<"draft", "provisioning">>, calls |-> r.calls]

----------------------------------------------------------------------------
(* AgentOrchestrator: reads and lifecycle operations *)

get_agent(agent_id) ==
    IF agent_id = MockAgentId
    THEN [id |-> agent_id, status |-> "active", channels |-> <<"whatsapp", "voice">>]
    ELSE Nothing

start_agent(agent_id) ==
    LET agent == get_agent(agent_id)
    IN  IF agent # Nothing THEN [agent EXCEPT !.status = "active"] ELSE Nothing

stop_agent(agent_id) ==
    LET agent == get_agent(agent_id)
    IN  IF agent # Nothing THEN [agent EXCEPT !.status = "stopped"] ELSE Nothing

pause_agent(agent_id) ==
    LET agent == get_agent(agent_id)
    IN  IF agent # Nothing THEN [agent EXCEPT !.status = "paused"] ELSE Nothing

resume_agent(agent_id) ==
    LET agent == get_agent(agent_id)
    IN  IF agent # Nothing THEN [agent EXCEPT !.status = "active"] ELSE Nothing

get_agent_status(agent_id) ==
    LET agent == get_agent(agent_id)
    IN  IF agent # Nothing
        THEN [agent_id |-> agent_id, status |-> agent.status, channels |-> agent.channels]
        ELSE Nothing

get_provisioning_logs(agent_id) ==
    << [id |-> "log-1", agent_id |-> agent_id, step |-> "agent_creation",
        status |-> "completed"] >>


----------------------------------------------------------------------------
(* ContextManager: core/context_manager.py.  The DynamoDB calls are            *)
(* commented out in the source: a read answers a record built from its         *)
(* arguments, a write logs and stores nothing.  The writers are modelled by    *)
(* the items they put into the table; timestamps are left out.                 *)

get_agent_context(agent_id) ==
    [agent_id |-> agent_id,
     context_data |-> [business_type |-> "microfinance",
                       services |-> <<"loan_inquiry", "payment_support">>,
                       current_conversation |-> None],
     conversation_history |-> <<>>]

update_context(agent_id, context_update) == <<>>

store_conversation_history(agent_id, channel, conversation) == <<>>

HistoryLimit == 50

get_conversation_history(agent_id, channel, limit) ==
    LET history == << [id |-> "conv-1", agent_id |-> agent_id, channel |-> channel,
                       conversation |->
                           [user_message |-> "Hello, I need help with my loan"]] >>
    IN  SubSeq(history, 1, IF limit < Len(history) THEN limit ELSE Len(history))

----------------------------------------------------------------------------
(* AgentOrchestrator: delete, deprovision and the provisioning snapshot; the   *)
(* endpoints that call them, and the delete / deactivate endpoints of the      *)
(* provisioning router.  calls lists the backend calls made.                   *)

delete_agent(agent_id) == [success |-> TRUE, calls |-> <<>>]

\* DELETE /agents/<agent_id>
delete_agent_route(agent_id) ==
    LET r == delete_agent(agent_id)
    IN  [status_code |-> IF r.success THEN 204 ELSE 404, calls |-> r.calls]

deprovision_agent(agent_id) ==
    [agent_id |-> agent_id, status |-> "deprovisioned", calls |-> <<>>]

\* get_provisioning_status reporting the share of the work still to do
get_provisioning_status_remaining(agent_id) ==
    [agent_id |-> agent_id, status |-> "completed",
     progress |-> 100 - 20 * Len(trace),
     current_step |-> "finished", total_steps |-> 5]

get_provisioning_status(agent_id) ==
    [agent_id |-> agent_id, status |-> "completed", progress |-> 100,
     current_step |-> "finished", total_steps |-> 5]

\* DELETE /v1/agent/<agent_id>
provisioning_delete_agent(agent_id) ==
    [status_code |-> 200, status |-> "success", agent_id |-> agent_id, calls |-> <<>>]

\* POST /v1/agent/<agent_id>/deactivate
deactivate_agent(agent_id) ==
    [status_code |-> 200, status |-> "success", agent_id |-> agent_id,
     data_status |-> "inactive"]

----------------------------------------------------------------------------
(* Message routing engine: api/routes/message_routing.py *)

\* user identifiers, as sequences of characters
Users == {<<"+", "1">>, <<"1", "2">>, <<"a", "1">>}

DigitChars == {"1", "2"}

\* explicit vendor hints of a request: absent, empty, or a vendor id
VendorIds == {<<"store-a">>, <<"store-b">>}
Hints == {None, <<>>} \cup VendorIds

\* agentId values of the runtimes VocaOS lists
RuntimeIds == {None, <<"default-runtime">>, <<"vendor-", "store-b">>}

RECURSIVE RuntimeCount(_)
RuntimeCount(listing) ==
    IF listing = <<>> THEN 0 ELSE Len(Head(listing)) + RuntimeCount(Tail(listing))

PoolListings ==
    {listing \in BoundedSeq(BoundedSeq(RuntimeIds, MaxRuntimes), MaxPools) :
        RuntimeCount(listing) <= MaxRuntimes}

DirectoryStates ==
    {[status |-> "ok", pools |-> p] : p \in PoolListings}
      \cup {[status |-> "status_error", pools |-> <<>>],
            [status |-> "exception", pools |-> <<>>]}

\* what the POST to /voca-os/api/v1/messages can do
DispatchOutcomes == {"ok", "ok_object_reply", "status_error", "timeout", "exception"}

\* str.replace("vendor-", "")
strip_vendor_prefix(s) == SelectSeq(s, LAMBDA t : t # "vendor-")

\* the loop of _lookup_agent_by_user over the pools of a listing, from pool i on
RECURSIVE latest_runtime_agent(_, _)
latest_runtime_agent(listing, i) ==
    IF i > Len(listing) THEN Nothing
    ELSE LET runtimes == listing[i]
         IN  IF /\ runtimes # <<>>
                /\ Truthy(runtimes[Len(runtimes)])
                /\ runtimes[Len(runtimes)] # <<"default-runtime">>
             THEN [agent_id |-> runtimes[Len(runtimes)],
                   vendor_id |-> strip_vendor_prefix(runtimes[Len(runtimes)]),
                   lookup_method |-> "user_phone_lookup"]
             ELSE latest_runtime_agent(listing, i + 1)

\* whether _lookup_agent_by_user queries VocaOS at all
looks_like_phone(user_id) ==
    \/ (Len(user_id) > 0 /\ user_id[1] = "+")
    \/ (Len(user_id) > 0 /\ \A i \in 1..Len(user_id) : user_id[i] \in DigitChars)

\* _lookup_agent_by_user answering a default agent when the request to the
\* directory fails
lookup_agent_by_user_default_on_failure(user_id, platform, directory) ==
    IF looks_like_phone(user_id) /\ directory.status = "ok"
    THEN latest_runtime_agent(directory.pools, 1)
    ELSE IF looks_like_phone(user_id)
    THEN [agent_id |-> <<"default-runtime">>, vendor_id |-> <<"default-runtime">>,
          lookup_method |-> "user_phone_lookup"]
    ELSE Nothing

(* _lookup_agent_by_user: for a phone-like user id one GET of the pools; a   *)
(* non-200 answer and every exception (a timeout included) end in None.      *)
lookup_agent_by_user(user_id, platform, directory) ==
    IF looks_like_phone(user_id) /\ directory.status = "ok"
    THEN latest_runtime_agent(directory.pools, 1)
    ELSE Nothing

infer_agent_from_message(request) == Nothing

\* _determine_agent running inference after a lookup that matched
determine_agent_always_infers(request, directory) ==
    IF Truthy(request.vendor_id)
    THEN [agent_info |-> [agent_id |-> <<"vendor-">> \o request.vendor_id,
                          vendor_id |-> request.vendor_id,
                          lookup_method |-> "direct_vendor_id"],
          steps |-> <<>>]
    ELSE LET agent_info ==
                 lookup_agent_by_user(request.user_id, request.platform, directory)
         IN  IF agent_info # Nothing
             THEN [agent_info |-> agent_info, steps |-> <<"lookup", "infer">>]
             ELSE [agent_info |-> infer_agent_from_message(request),
                   steps |-> <<"lookup", "infer">>]

\* _determine_agent with the directory lookup consulted before the hint
determine_agent_lookup_first(request, directory) ==
    LET agent_info ==
            lookup_agent_by_user(request.user_id, request.platform, directory)
    IN  IF agent_info # Nothing
        THEN [agent_info |-> agent_info, steps |-> <<"lookup">>]
        ELSE IF Truthy(request.vendor_id)
        THEN [agent_info |-> [agent_id |-> <<"vendor-">> \o request.vendor_id,
                              vendor_id |-> request.vendor_id,
                              lookup_method |-> "direct_vendor_id"],
              steps |-> <<"lookup">>]
        ELSE [agent_info |-> infer_agent_from_message(request),
              steps |-> <<"lookup", "infer">>]

(* _determine_agent.  steps lists the resolution steps that were invoked.    *)
determine_agent(request, directory) ==
    IF Truthy(request.vendor_id)
    THEN [agent_info |-> [agent_id |-> <<"vendor-">> \o request.vendor_id,
                          vendor_id |-> request.vendor_id,
                          lookup_method |-> "direct_vendor_id"],
          steps |-> <<>>]
    ELSE LET agent_info ==
                 lookup_agent_by_user(request.user_id, request.platform, directory)
         IN  IF agent_info # Nothing
             THEN [agent_info |-> agent_info, steps |-> <<"lookup">>]
             ELSE [agent_info |-> infer_agent_from_message(request),
                   steps |-> <<"lookup", "infer">>]

(* _route_to_vocaos: one POST; a non-200 reply raises HTTPException(502)     *)
(* inside the try, which the generic handler turns into its own 502.         *)
route_to_vocaos(agent_info, request, outcome) ==
    LET sent == [vendor_id |-> agent_info.vendor_id, message |-> request.message,
                 platform |-> request.platform, user_id |-> request.user_id]
    IN  CASE outcome = "ok" ->
               [raised |-> FALSE, status_code |-> 200, error |-> "",
                body |-> "text", sent |-> sent]
          [] outcome = "ok_object_reply" ->
               [raised |-> FALSE, status_code |-> 200, error |-> "",
                body |-> "object", sent |-> sent]
          [] outcome = "timeout" ->
               [raised |-> TRUE, status_code |-> 504, error |-> "vocaos_timeout",
                body |-> "", sent |-> sent]
          [] OTHER ->
               [raised |-> TRUE, status_code |-> 502,
                error |-> "routing_to_vocaos_failed", body |-> "", sent |-> sent]

(* route_message (POST /chat): HTTPException passes through; anything else   *)
(* raised in the handler, the MessageResponse validation included, becomes   *)
(* a 500 routing_failed.                                                     *)
route_message(request, directory, outcome) ==
    LET d == determine_agent(request, directory)
        failed(code, err, dispatched) ==
            [status_code |-> code, error |-> err, agent_id |-> None,
             vendor_id |-> None, response |-> "", steps |-> d.steps,
             dispatched |-> dispatched]
    IN  IF d.agent_info = Nothing
        THEN failed(404, "agent_not_found", <<>>)
        ELSE LET r == route_to_vocaos(d.agent_info, request, outcome)
             IN  IF r.raised THEN failed(r.status_code, r.error, <<r.sent>>)
                 ELSE IF r.body # "text" THEN failed(500, "routing_failed", <<r.sent>>)
                 ELSE [status_code |-> 200, error |-> "",
                       agent_id |-> d.agent_info.agent_id,
                       vendor_id |-> d.agent_info.vendor_id,
                       response |-> r.body, steps |-> d.steps,
                       dispatched |-> <<r.sent>>]

----------------------------------------------------------------------------
(* Platform webhooks: api/routes/webhooks.py.  A payload is the sequence of  *)
(* its messages; a message is [from, text] with text already extracted       *)
(* ("" when the message carries none) and from the sender (None when the     *)
(* payload has none); id names the message within its payload.               *)

Senders == {<<"+", "1">>, None}
Texts == {"", "hi"}
WebhookMessages == [from : Senders, text : Texts]

\* the common shape of _process_<platform>_message
process_message(platform, vendor_id, message, directory, outcome) ==
    IF message.text = ""
    THEN [entry |-> Nothing, routed |-> Nothing]
    ELSE IF message.from = None
    THEN [entry |-> Nothing, routed |-> Nothing]   \* IncomingMessage(user_id=None) raises
    ELSE LET request == [platform |-> platform, message |-> message.text,
                         user_id |-> message.from, vendor_id |-> vendor_id,
                         message_id |-> message.id]
             r == route_message(request, directory, outcome)
         IN  [entry |-> IF r.status_code # 200 THEN Nothing
                        ELSE IF platform = "facebook_messenger"
                        THEN [sender_id |-> message.from, user_id |-> message.from,
                              response |-> r.response, agent_id |-> r.agent_id]
                        ELSE [message_id |-> message.id, user_id |-> message.from,
                              response |-> r.response, agent_id |-> r.agent_id],
              routed |-> [request |-> request, result |-> r]]

process_whatsapp_message(vendor_id, message, directory, outcome) ==
    process_message("whatsapp", vendor_id, message, directory, outcome)

process_instagram_message(vendor_id, message, directory, outcome) ==
    process_message("instagram_dm", vendor_id, message, directory, outcome)

process_facebook_message(vendor_id, message, directory, outcome) ==
    process_message("facebook_messenger", vendor_id, message, directory, outcome)

process_platform_message(webhook, vendor_id, message, directory, outcome) ==
    CASE webhook = "whatsapp" ->
           process_whatsapp_message(vendor_id, message, directory, outcome)
      [] webhook = "instagram" ->
           process_instagram_message(vendor_id, message, directory, outcome)
      [] OTHER ->
           process_facebook_message(vendor_id, message, directory, outcome)

\* the message loop leaving at the first message whose routing fails
RECURSIVE webhook_loop_abort_on_failure(_, _, _, _, _, _, _)
webhook_loop_abort_on_failure(webhook, vendor_id, messages, directory, outcomes, i, acc) ==
    IF i > Len(messages) THEN acc
    ELSE LET r == process_platform_message(webhook, vendor_id, messages[i],
                                           directory, outcomes[i])
             next == [responses |-> IF r.entry # Nothing
                                    THEN Append(acc.responses, r.entry)
                                    ELSE acc.responses,
                      routed |-> IF r.routed # Nothing
                                 THEN Append(acc.routed, r.routed)
                                 ELSE acc.routed]
         IN  IF r.routed # Nothing /\ r.entry = Nothing THEN next
             ELSE webhook_loop_abort_on_failure(webhook, vendor_id, messages,
                                                directory, outcomes, i + 1, next)

\* the message loop of a webhook handler, from message i on
RECURSIVE webhook_loop(_, _, _, _, _, _, _)
webhook_loop(webhook, vendor_id, messages, directory, outcomes, i, acc) ==
    IF i > Len(messages) THEN acc
    ELSE LET r == process_platform_message(webhook, vendor_id, messages[i],
                                           directory, outcomes[i])
         IN  webhook_loop(webhook, vendor_id, messages, directory, outcomes, i + 1,
                 [responses |-> IF r.entry # Nothing
                                THEN Append(acc.responses, r.entry)
                                ELSE acc.responses,
                  routed |-> IF r.routed # Nothing
                             THEN Append(acc.routed, r.routed)
                             ELSE acc.routed])

platform_webhook(webhook, vendor_id, messages, directory, outcomes) ==
    LET r == webhook_loop(webhook, vendor_id, messages, directory, outcomes, 1,
                          [responses |-> <<>>, routed |-> <<>>])
    IN  [status |-> "success", responses |-> r.responses, routed |-> r.routed]

Webhooks == {"whatsapp", "instagram", "facebook"}

----------------------------------------------------------------------------
(* AgentOrchestrator.route_message and the two webhooks that call it:        *)
(* api/routes/webhook_routes.py                                              *)

OrchestratorAgentIds == {None, <<"agent-1">>, <<"agent-2">>}

extract_agent_id(message, channel) ==
    IF channel \in {"voice", "sms"}
    THEN PyOr(message.agent_id, message.instance_id)
    ELSE PyOr(message.agent_id, message.recipient_id)

\* what the backend's handle_message does: answer, or raise (both handlers
\* re-raise whatever their body raises)
HandlerOutcomes == {"ok", "exception"}

\* route_message updating the context before it calls the handler
orchestrator_route_message_write_first(channel, message, outcome) ==
    LET agent_id == extract_agent_id(message, channel)
        handler == IF channel \in {"voice", "sms"} THEN "aws_connect" ELSE "elizaos"
    IN  [agent_id |-> agent_id,
         handler |-> handler,
         raised |-> outcome # "ok",
         steps |-> <<"get_agent_context", "update_context", "handle_message">>,
         response |-> IF outcome = "ok"
                      THEN [agent_id |-> agent_id, handler |-> handler]
                      ELSE Nothing]

(* steps lists, in order, the collaborator calls of one invocation; an       *)
(* exception of the handler leaves route_message before update_context.      *)
orchestrator_route_message(channel, message, outcome) ==
    LET agent_id == extract_agent_id(message, channel)
        handler == IF channel \in {"voice", "sms"} THEN "aws_connect" ELSE "elizaos"
    IN  [agent_id |-> agent_id,
         handler |-> handler,
         raised |-> outcome # "ok",
         steps |-> IF outcome = "ok"
                   THEN <<"get_agent_context", "handle_message", "update_context">>
                   ELSE <<"get_agent_context", "handle_message">>,
         response |-> IF outcome = "ok"
                      THEN [agent_id |-> agent_id, handler |-> handler]
                      ELSE Nothing]

\* the webhook routes answer 500 "Webhook processing failed" on any exception
webhook_response(r) ==
    [status_code |-> IF r.raised THEN 500 ELSE 200, agent_id |-> r.agent_id,
     handler |-> r.handler, raised |-> r.raised, steps |-> r.steps,
     response |-> r.response]

connect_webhook(body, outcome) ==
    webhook_response(orchestrator_route_message("connect", body, outcome))

elizaos_webhook(body, outcome) ==
    webhook_response(orchestrator_route_message(body.platform, body, outcome))

WebhookPlatforms == {"unknown", "whatsapp", "voice"}

----------------------------------------------------------------------------
(* Provisioning endpoint: api/routes/agent_provisioning.py *)

social_media_channels == {"whatsapp", "instagram_dm", "facebook_messenger", "twitter_dm"}

voice_channels == {"voice", "sms"}

\* channel names a provisioning request lists (list[str], not validated)
RequestChannels == {"voice", "whatsapp", "instagram_dm", "instagram"}

\* what the POST to /voca-os/api/v1/vendors can do
VendorOutcomes == {"ok", "ok_malformed", "status_error", "exception"}

InSeq(S, seq) == \E i \in 1..Len(seq) : seq[i] \in S

(* _provision_agent: one VocaOS vendor for all social channels, a            *)
(* placeholder for voice/SMS; every failure is caught into the results.      *)
provision(request_data, outcome) ==
    LET channels == request_data.channels
        has_social_media == InSeq(social_media_channels, channels)
        has_voice == InSeq(voice_channels, channels)
    IN  [voca_os |-> IF ~has_social_media THEN "absent"
                     ELSE IF outcome = "ok" THEN "success" ELSE "failed",
         agent_id |-> IF has_social_media /\ outcome = "ok"
                      THEN <<"vocaos-agent">> ELSE None,
         platforms |-> SelectSeq(channels, LAMBDA c : c \in social_media_channels),
         posts |-> IF has_social_media THEN 1 ELSE 0,
         voca_connect |-> IF has_voice THEN "pending" ELSE "absent"]

provision_agent(request, outcome) ==
    LET provisioning_results == provision(request, outcome)
    IN  [status_code |-> 200,
         status |-> "success",
         agent_id |-> IF provisioning_results.voca_os = "success"
                      THEN provisioning_results.agent_id ELSE None,
         data_status |-> "active",
         provisioning_status |-> provisioning_results]

----------------------------------------------------------------------------
(* The voca-connect service: services/voca-connect/main.py.  account is the  *)
(* AWS account as the service's boto3 clients see it: the vendors that have a *)
(* Connect instance (alias voca-connect-<vendor>), a contact flow             *)
(* (VocaFlow-<vendor>), a phone number on their instance and a Lambda         *)
(* function (voca-lambda-<vendor>).  A helper answers                         *)
(* [raised, calls, account]: whether it raised, the client calls it made and  *)
(* the account afterwards.                                                    *)

ConnectVendors == {<<"v1">>, <<"v2">>}

NoResources == [instances |-> {}, flows |-> {}, phones |-> {}, functions |-> {}]

\* what a client call can do: answer, raise botocore's ClientError, or raise
\* something else (a connection error, a missing key in the answer)
HelperOutcomes == {"ok", "client_error", "error"}

create_connect_instance(account, vendor_id, outcome) ==
    [raised |-> outcome # "ok", calls |-> <<"create_instance">>,
     account |-> IF outcome = "ok"
                 THEN [account EXCEPT !.instances = @ \cup {vendor_id}]
                 ELSE account]

create_contact_flow(account, vendor_id, outcome) ==
    [raised |-> outcome # "ok", calls |-> <<"create_contact_flow">>,
     account |-> IF outcome = "ok"
                 THEN [account EXCEPT !.flows = @ \cup {vendor_id}]
                 ELSE account]

\* the first DID number of the instance, or a newly claimed one
assign_phone_number(account, vendor_id, outcome) ==
    IF outcome # "ok"
    THEN [raised |-> TRUE, calls |-> <<"list_phone_numbers">>, account |-> account]
    ELSE IF vendor_id \in account.phones
    THEN [raised |-> FALSE, calls |-> <<"list_phone_numbers">>, account |-> account]
    ELSE [raised |-> FALSE, calls |-> <<"list_phone_numbers", "claim_phone_number">>,
          account |-> [account EXCEPT !.phones = @ \cup {vendor_id}]]

deploy_lambda_function(account, vendor_id, outcome) ==
    [raised |-> outcome # "ok", calls |-> <<"create_function">>,
     account |-> IF outcome = "ok"
                 THEN [account EXCEPT !.functions = @ \cup {vendor_id}]
                 ELSE account]

\* the helpers of provision_connect_instance, in the order it awaits them
ProvisionSteps ==
    <<"create_connect_instance", "create_contact_flow", "assign_phone_number",
      "deploy_lambda_function">>

provision_helper(step, account, vendor_id, outcome) ==
    CASE step = "create_connect_instance" ->
           create_connect_instance(account, vendor_id, outcome)
      [] step = "create_contact_flow" ->
           create_contact_flow(account, vendor_id, outcome)
      [] step = "assign_phone_number" ->
           assign_phone_number(account, vendor_id, outcome)
      [] OTHER ->
           deploy_lambda_function(account, vendor_id, outcome)

\* the helpers from position i on: the first that raises ends the sequence
RECURSIVE provision_from(_, _, _, _, _)
provision_from(order, vendor_id, outcomes, i, acc) ==
    IF i > Len(order) THEN acc
    ELSE LET r == provision_helper(order[i], acc.account, vendor_id, outcomes[i])
             next == [raised |-> r.raised, steps |-> Append(acc.steps, order[i]),
                      calls |-> acc.calls \o r.calls, account |-> r.account]
         IN  IF r.raised THEN next
             ELSE provision_from(order, vendor_id, outcomes, i + 1, next)

\* provision_connect_instance running its helpers in the reverse order
provision_connect_instance_reversed(account, body, outcomes) ==
    IF ~Truthy(body.vendor_id)
    THEN [status_code |-> 500, success |-> FALSE, steps |-> <<>>, calls |-> <<>>,
          account |-> account]
    ELSE LET r == provision_from(<<ProvisionSteps[4], ProvisionSteps[3],
                                   ProvisionSteps[2], ProvisionSteps[1]>>,
                                 body.vendor_id, outcomes, 1,
                                 [raised |-> FALSE, steps |-> <<>>, calls |-> <<>>,
                                  account |-> account])
         IN  [status_code |-> IF r.raised THEN 500 ELSE 200,
              success |-> ~r.raised, steps |-> r.steps, calls |-> r.calls,
              account |-> r.account]

(* POST /api/v1/provision.  The HTTPException(400) for a missing vendor_id   *)
(* is raised inside the try and leaves as the handler's 500, like every      *)
(* exception of a helper.                                                    *)
provision_connect_instance(account, body, outcomes) ==
    IF ~Truthy(body.vendor_id)
    THEN [status_code |-> 500, success |-> FALSE, steps |-> <<>>, calls |-> <<>>,
          account |-> account]
    ELSE LET r == provision_from(ProvisionSteps, body.vendor_id, outcomes, 1,
                                 [raised |-> FALSE, steps |-> <<>>, calls |-> <<>>,
                                  account |-> account])
         IN  [status_code |-> IF r.raised THEN 500 ELSE 200,
              success |-> ~r.raised, steps |-> r.steps, calls |-> r.calls,
              account |-> r.account]

\* the id of the vendor's instance in list_instances, or None
get_instance_id_for_vendor(account, vendor_id, outcome) ==
    [raised |-> outcome # "ok", calls |-> <<"list_instances">>,
     instance_id |-> IF outcome = "ok" /\ vendor_id \in account.instances
                     THEN <<"instance-">> \o vendor_id ELSE None,
     account |-> account]

\* the three teardown helpers log a ClientError and return; anything else
\* they let through

\* delete_lambda_function re-raising its ClientError
delete_lambda_function_raising(account, vendor_id, outcome) ==
    [raised |-> outcome # "ok", calls |-> <<"delete_function">>,
     account |-> IF outcome = "ok"
                 THEN [account EXCEPT !.functions = @ \ {vendor_id}]
                 ELSE account]

delete_lambda_function(account, vendor_id, outcome) ==
    [raised |-> outcome = "error", calls |-> <<"delete_function">>,
     account |-> IF outcome = "ok"
                 THEN [account EXCEPT !.functions = @ \ {vendor_id}]
                 ELSE account]

release_phone_number(account, vendor_id, outcome) ==
    IF outcome # "ok"
    THEN [raised |-> outcome = "error", calls |-> <<"list_phone_numbers">>,
          account |-> account]
    ELSE IF vendor_id \in account.phones
    THEN [raised |-> FALSE, calls |-> <<"list_phone_numbers", "release_phone_number">>,
          account |-> [account EXCEPT !.phones = @ \ {vendor_id}]]
    ELSE [raised |-> FALSE, calls |-> <<"list_phone_numbers">>, account |-> account]

delete_contact_flow(account, vendor_id, outcome) ==
    IF outcome # "ok"
    THEN [raised |-> outcome = "error", calls |-> <<"list_contact_flows">>,
          account |-> account]
    ELSE IF vendor_id \in account.flows
    THEN [raised |-> FALSE, calls |-> <<"list_contact_flows", "delete_contact_flow">>,
          account |-> [account EXCEPT !.flows = @ \ {vendor_id}]]
    ELSE [raised |-> FALSE, calls |-> <<"list_contact_flows">>, account |-> account]

\* delete_connect_instance re-raises the ClientError
delete_connect_instance(account, vendor_id, outcome) ==
    [raised |-> outcome # "ok", calls |-> <<"delete_instance">>,
     account |-> IF outcome = "ok"
                 THEN [account EXCEPT !.instances = @ \ {vendor_id}]
                 ELSE account]

\* the teardown helpers of deprovision_connect_instance, in the order it
\* awaits them
TeardownSteps ==
    <<"delete_lambda_function", "release_phone_number", "delete_contact_flow",
      "delete_connect_instance">>

teardown_helper(step, account, vendor_id, outcome) ==
    CASE step = "delete_lambda_function" ->
           delete_lambda_function(account, vendor_id, outcome)
      [] step = "release_phone_number" ->
           release_phone_number(account, vendor_id, outcome)
      [] step = "delete_contact_flow" ->
           delete_contact_flow(account, vendor_id, outcome)
      [] OTHER ->
           delete_connect_instance(account, vendor_id, outcome)

\* the helpers from position i on: the first that raises ends the sequence
RECURSIVE teardown_from(_, _, _, _)
teardown_from(vendor_id, outcomes, i, acc) ==
    IF i > Len(TeardownSteps) THEN acc
    ELSE LET r == teardown_helper(TeardownSteps[i], acc.account, vendor_id,
                                  outcomes[i])
             next == [raised |-> r.raised,
                      steps |-> Append(acc.steps, TeardownSteps[i]),
                      calls |-> acc.calls \o r.calls, account |-> r.account]
         IN  IF r.raised THEN next
             ELSE teardown_from(vendor_id, outcomes, i + 1, next)

(* DELETE /api/v1/deprovision/<vendor_id>.  lookup is what list_instances    *)
(* does, outcomes what the first client call of each teardown helper does.   *)
deprovision_connect_instance(account, vendor_id, lookup, outcomes) ==
    LET found == get_instance_id_for_vendor(account, vendor_id, lookup)
    IN  IF found.raised
        THEN [status_code |-> 500, success |-> FALSE, message |-> "",
              steps |-> <<>>, calls |-> found.calls, account |-> account]
        ELSE IF ~Truthy(found.instance_id)
        THEN [status_code |-> 200, success |-> TRUE,
              message |-> "No instance found for vendor",
              steps |-> <<>>, calls |-> found.calls, account |-> account]
        ELSE LET r == teardown_from(vendor_id, outcomes, 1,
                                    [raised |-> FALSE, steps |-> <<>>,
                                     calls |-> found.calls, account |-> account])
             IN  [status_code |-> IF r.raised THEN 500 ELSE 200,
                  success |-> ~r.raised,
                  message |-> IF r.raised THEN "" ELSE "Successfully deprovisioned",
                  steps |-> r.steps, calls |-> r.calls, account |-> r.account]

----------------------------------------------------------------------------
(* Actions.  A handler runs when no invocation is under observation and      *)
(* leaves its inputs, calls and response in last; Return hands the response  *)
(* to the caller.                                                            *)

Idle == [op |-> "none"]

Init ==
    /\ vocaos = [status |-> "ok", pools |-> <<>>]
    /\ last = Idle
    /\ inflight = {}
    /\ trace = <<>>
    /\ aws = NoResources

\* VocaOS changes what it lists, or starts / stops failing
DirectoryChange ==
    /\ last = Idle
    /\ vocaos' \in DirectoryStates \ {vocaos}
    /\ UNCHANGED <<last, inflight, trace, aws>>

Return ==
    /\ last # Idle
    /\ last' = Idle
    /\ UNCHANGED <<vocaos, inflight, trace, aws>>

CreateAgent ==
    /\ last = Idle
    /\ \E channels \in BoundedSeq(ChannelType, MaxChannels) :
         \E failAt \in [1..Len(channels) -> 0..2] :
           /\ \A i \in 1..Len(channels) : failAt[i] \in FailuresOf(channels[i])
           \* the loop ends at the first channel that fails, so no failure is
           \* drawn for the channels after it
           /\ \A i, j \in 1..Len(channels) : (i < j /\ failAt[i] # 0) => failAt[j] = 0
           /\ LET r == create_multi_channel_agent([channels |-> channels], failAt)
              IN  last' = [op |-> "create_multi_channel_agent",
                           requested |-> channels, failAt |-> failAt,
                           raised |-> r.raised, agent_id |-> r.agent_id,
                           agent |-> r.agent, statuses |-> r.statuses,
                           calls |-> r.calls,
                           status_after |-> get_agent_status(r.agent_id),
                           logs_after |-> get_provisioning_logs(r.agent_id),
                           snapshot_after |-> get_provisioning_status(r.agent_id)]
    /\ UNCHANGED <<vocaos, inflight, trace, aws>>

Lifecycle(op, agent_id, result) ==
    /\ last = Idle
    /\ last' = [op |-> op, agent_id |-> agent_id,
                before |-> get_agent(agent_id), agent |-> result,
                agent_after |-> get_agent(agent_id),
                status_after |-> get_agent_status(agent_id)]
    /\ UNCHANGED <<vocaos, inflight, trace, aws>>

StartAgent  == \E id \in LifecycleIds : Lifecycle("start_agent", id, start_agent(id))

StopAgent   == \E id \in LifecycleIds : Lifecycle("stop_agent", id, stop_agent(id))

PauseAgent  == \E id \in LifecycleIds : Lifecycle("pause_agent", id, pause_agent(id))

ResumeAgent == \E id \in LifecycleIds : Lifecycle("resume_agent", id, resume_agent(id))

\* POST /chat
Chat ==
    /\ last = Idle
    /\ \E hint \in Hints, user_id \in Users, outcome \in DispatchOutcomes :
         LET request == [platform |-> "whatsapp", message |-> "hi",
                         user_id |-> user_id, vendor_id |-> hint]
         IN  last' = [op |-> "route_message", request |-> request,
                      outcome |-> outcome,
                      directory |-> lookup_agent_by_user(user_id, "whatsapp", vocaos),
                      result |-> route_message(request, vocaos, outcome)]
    /\ UNCHANGED <<vocaos, inflight, trace, aws>>

\* POST /webhooks/<platform>/<vendor_id>
PlatformWebhook ==
    /\ last = Idle
    /\ \E webhook \in Webhooks, vendor_id \in VendorIds,
          payload \in BoundedSeq(WebhookMessages, MaxBatch) :
         \E outcomes \in [1..Len(payload) -> DispatchOutcomes] :
           \* a message without text or sender is dropped before the router is
           \* called, so no dispatch outcome is drawn for it
           /\ \A i \in 1..Len(payload) :
                 (payload[i].text = "" \/ payload[i].from = None) => outcomes[i] = "ok"
           /\ \E messages \in {[i \in 1..Len(payload) |->
                                   [id |-> i, from |-> payload[i].from,
                                    text |-> payload[i].text]]} :
                 last' = [op |-> "platform_webhook", webhook |-> webhook,
                          vendor_id |-> vendor_id, messages |-> messages,
                          result |-> platform_webhook(webhook, vendor_id, messages,
                                                      vocaos, outcomes)]
    /\ UNCHANGED <<vocaos, inflight, trace, aws>>

OrchestratorBodies ==
    [agent_id : OrchestratorAgentIds, instance_id : OrchestratorAgentIds,
     recipient_id : OrchestratorAgentIds, platform : WebhookPlatforms]

\* POST /api/v1/webhooks/connect
ConnectWebhook ==
    /\ last = Idle
    /\ \E body \in OrchestratorBodies, outcome \in HandlerOutcomes :
         last' = [op |-> "connect_webhook", channel |-> "connect", message |-> body,
                  outcome |-> outcome, result |-> connect_webhook(body, outcome)]
    /\ UNCHANGED <<vocaos, inflight, trace, aws>>

\* POST /api/v1/webhooks/elizaos
ElizaosWebhook ==
    /\ last = Idle
    /\ \E body \in OrchestratorBodies, outcome \in HandlerOutcomes :
         last' = [op |-> "elizaos_webhook", channel |-> body.platform,
                  message |-> body, outcome |-> outcome,
                  result |-> elizaos_webhook(body, outcome)]
    /\ UNCHANGED <<vocaos, inflight, trace, aws>>

\* POST /v1/agent/provision
ProvisionAgent ==
    /\ last = Idle
    /\ \E channels \in BoundedSeq(RequestChannels, MaxChannels),
          outcome \in VendorOutcomes :
         last' = [op |-> "provision_agent", requested |-> channels,
                  outcome |-> outcome,
                  result |-> provision_agent([channels |-> channels], outcome)]
    /\ UNCHANGED <<vocaos, inflight, trace, aws>>

Next ==
    \/ DirectoryChange
    \/ Return
    \/ CreateAgent
    \/ StartAgent
    \/ StopAgent
    \/ PauseAgent
    \/ ResumeAgent
    \/ Chat
    \/ PlatformWebhook
    \/ ConnectWebhook
    \/ ElizaosWebhook
    \/ ProvisionAgent

Spec == Init /\ [][Next]_vars

----------------------------------------------------------------------------
(* Telephony provisioning: the voca-connect service, one request at a time  *)
(* (its handlers make only blocking boto3 calls, so a request runs to its    *)
(* end before the next), and the orchestrator's create, whose voice and SMS  *)
(* channels go through AWSConnectProvisioner.                                *)

\* bodies POSTed to /api/v1/provision
ProvisionBodies == [vendor_id : ConnectVendors \cup {None}]

\* POST /api/v1/provision
ProvisionConnectInstance ==
    /\ last = Idle
    /\ \E body \in ProvisionBodies :
         \E outcomes \in [1..Len(ProvisionSteps) -> HelperOutcomes] :
           \* a helper after the first that raises is never called, so no
           \* outcome is drawn for it
           /\ \A i, j \in 1..Len(ProvisionSteps) :
                 (i < j /\ outcomes[i] # "ok") => outcomes[j] = "ok"
           /\ ~Truthy(body.vendor_id) => \A i \in 1..Len(ProvisionSteps) : outcomes[i] = "ok"
           /\ LET r == provision_connect_instance(aws, body, outcomes)
              IN  /\ aws' = r.account
                  /\ last' = [op |-> "provision_connect_instance", body |-> body,
                              outcomes |-> outcomes, before |-> aws, result |-> r]
    /\ UNCHANGED <<vocaos, inflight, trace>>

\* DELETE /api/v1/deprovision/<vendor_id>
DeprovisionConnectInstance ==
    /\ last = Idle
    /\ \E vendor_id \in ConnectVendors, lookup \in HelperOutcomes :
         \E outcomes \in [1..Len(TeardownSteps) -> HelperOutcomes] :
           LET r == deprovision_connect_instance(aws, vendor_id, lookup, outcomes)
           IN  \* outcomes are drawn for the helpers that are called
               /\ \A i \in 1..Len(TeardownSteps) :
                     i > Len(r.steps) => outcomes[i] = "ok"
               /\ aws' = r.account
               /\ last' = [op |-> "deprovision_connect_instance",
                           vendor_id |-> vendor_id, lookup |-> lookup,
                           outcomes |-> outcomes, before |-> aws, result |-> r]
    /\ UNCHANGED <<vocaos, inflight, trace>>

ConnectNext ==
    \/ ProvisionConnectInstance
    \/ DeprovisionConnectInstance
    \/ CreateAgent
    \/ Return

ConnectSpec == Init /\ [][ConnectNext]_vars

----------------------------------------------------------------------------
(* Several requests in flight.  The orchestrator's routers (main.py) and the  *)
(* provisioning router (app/main.py) are served by asyncio event loops; trace  *)
(* is the order an observer of both sees.  A coroutine runs without interruption *)
(* up to its next await of a network call: the orchestrator's handlers await   *)
(* only coroutines that never suspend (the boto3 calls block), so each runs    *)
(* as one step; provision_agent suspends once, at the POST to VocaOS.  Every   *)
(* step appends what it did to trace, tagged with the number of its request.   *)

\* the number of requests that have arrived
Arrived == Cardinality({trace[i].req : i \in 1..Len(trace)})

LoopAgentId == <<"agent-1">>

VocaosAgentId == <<"vocaos-agent">>

\* bodies POSTed to /api/v1/webhooks/elizaos for one agent; id names the message
LoopMessages ==
    [agent_id : {LoopAgentId}, instance_id : {None}, recipient_id : {None},
     platform : {"whatsapp", "voice"}, id : {"m1", "m2"}]

\* the steps of AgentOrchestrator.route_message, in the order they run
route_steps(req, channel, message, outcome) ==
    LET r == orchestrator_route_message(channel, message, outcome)
        update == [last_message |-> message, last_response |-> r.response]
        event(n) ==
            CASE r.steps[n] = "get_agent_context" ->
                   [req |-> req, op |-> r.steps[n], agent_id |-> r.agent_id,
                    channel |-> channel, context |-> get_agent_context(r.agent_id)]
              [] r.steps[n] = "handle_message" ->
                   [req |-> req, op |-> r.steps[n], agent_id |-> r.agent_id,
                    channel |-> channel, handler |-> r.handler, message |-> message,
                    raised |-> r.raised]
              [] OTHER ->
                   [req |-> req, op |-> r.steps[n], agent_id |-> r.agent_id,
                    channel |-> channel, update |-> update,
                    writes |-> update_context(r.agent_id, update)]
    IN  [n \in 1..Len(r.steps) |-> event(n)]

Step(events) ==
    /\ Arrived < MaxRequests
    /\ trace' = trace \o events
    /\ UNCHANGED <<vocaos, last, inflight, aws>>

\* POST /api/v1/webhooks/elizaos
LoopElizaosWebhook ==
    \E body \in LoopMessages, outcome \in HandlerOutcomes :
        Step(route_steps(Arrived + 1, body.platform, body, outcome))

\* ContextManager.get_agent_context
LoopGetContext ==
    \E agent_id \in {LoopAgentId, <<"agent-2">>} :
        Step(<< [req |-> Arrived + 1, op |-> "get_agent_context",
                 agent_id |-> agent_id, channel |-> "",
                 context |-> get_agent_context(agent_id)] >>)

\* ContextManager.store_conversation_history
LoopStoreHistory ==
    \E channel \in {"whatsapp", "voice"}, text \in {"e1", "e2"} :
        LET conversation == [user_message |-> text]
        IN  Step(<< [req |-> Arrived + 1, op |-> "store_conversation_history",
                     agent_id |-> LoopAgentId, channel |-> channel,
                     conversation |-> conversation,
                     writes |-> store_conversation_history(LoopAgentId, channel,
                                                           conversation)] >>)

\* ContextManager.get_conversation_history
LoopGetHistory ==
    \E channel \in {"whatsapp", "voice"} :
        Step(<< [req |-> Arrived + 1, op |-> "get_conversation_history",
                 agent_id |-> LoopAgentId, channel |-> channel,
                 history |-> get_conversation_history(LoopAgentId, channel,
                                                      HistoryLimit)] >>)

\* POST /api/v1/agents/<agent_id>/stop
LoopStopAgent ==
    Step(<< [req |-> Arrived + 1, op |-> "stop_agent", agent_id |-> MockAgentId,
             agent |-> stop_agent(MockAgentId)] >>)

\* POST /v1/agent/<agent_id>/deactivate
LoopDeactivateAgent ==
    Step(<< [req |-> Arrived + 1, op |-> "deactivate_agent",
             agent_id |-> VocaosAgentId,
             result |-> deactivate_agent(VocaosAgentId)] >>)

\* DELETE /api/v1/agents/<agent_id>
LoopDeleteAgent ==
    \E agent_id \in {MockAgentId, uuid4(0)} :
        Step(<< [req |-> Arrived + 1, op |-> "delete_agent", agent_id |-> agent_id,
                 before |-> get_agent(agent_id),
                 result |-> delete_agent_route(agent_id)] >>)

\* DELETE /v1/agent/<agent_id>
LoopProvisioningDeleteAgent ==
    Step(<< [req |-> Arrived + 1, op |-> "provisioning_delete_agent",
             agent_id |-> VocaosAgentId,
             result |-> provisioning_delete_agent(VocaosAgentId)] >>)

\* POST /api/v1/provisioning/<agent_id>/deprovision
LoopDeprovisionAgent ==
    Step(<< [req |-> Arrived + 1, op |-> "deprovision_agent", agent_id |-> uuid4(0),
             result |-> deprovision_agent(uuid4(0))] >>)

\* GET /api/v1/provisioning/<agent_id>/provisioning-status
LoopProvisioningStatus ==
    \E agent_id \in {VocaosAgentId, uuid4(0)} :
        Step(<< [req |-> Arrived + 1, op |-> "get_provisioning_status",
                 agent_id |-> agent_id, provisioning |-> inflight # {},
                 snapshot |-> get_provisioning_status(agent_id)] >>)

\* POST /api/v1/agents
LoopCreateAgent ==
    \E failAt \in ConnectFailures :
        Step(<< [req |-> Arrived + 1, op |-> "create_multi_channel_agent",
                 agent_id |-> uuid4(0), failAt |-> failAt,
                 result |-> create_multi_channel_agent([channels |-> <<"voice">>],
                                                       <<failAt>>)] >>)

\* POST /v1/agent/provision, up to the await of the POST to VocaOS (a request
\* without social media channels makes no call and returns at once)
LoopProvisionAgent ==
    /\ Arrived < MaxRequests
    /\ \E channels \in {<<"whatsapp">>, <<"voice">>} :
         LET req == Arrived + 1
             request == [channels |-> channels]
         IN  IF InSeq(social_media_channels, channels)
             THEN /\ trace' = Append(trace, [req |-> req, op |-> "provision_agent.post",
                                             agent_id |-> None,
                                             request |-> request])
                  /\ inflight' = inflight \cup {[req |-> req, request |-> request]}
             ELSE /\ trace' = Append(trace, [req |-> req, op |-> "provision_agent.return",
                                             agent_id |-> None, request |-> request,
                                             result |-> provision_agent(request, "ok")])
                  /\ UNCHANGED inflight
    /\ UNCHANGED <<vocaos, last, aws>>

\* VocaOS answers (or the call fails): the suspended request runs to its end
LoopProvisionReturn ==
    /\ \E t \in inflight, outcome \in VendorOutcomes :
         LET result == provision_agent(t.request, outcome)
         IN  /\ trace' = Append(trace, [req |-> t.req, op |-> "provision_agent.return",
                                        agent_id |-> result.agent_id,
                                        request |-> t.request, outcome |-> outcome,
                                        result |-> result])
             /\ inflight' = inflight \ {t}
    /\ UNCHANGED <<vocaos, last, aws>>

LoopNext ==
    \/ LoopElizaosWebhook
    \/ LoopGetContext
    \/ LoopStoreHistory
    \/ LoopGetHistory
    \/ LoopStopAgent
    \/ LoopDeactivateAgent
    \/ LoopDeleteAgent
    \/ LoopProvisioningDeleteAgent
    \/ LoopDeprovisionAgent
    \/ LoopProvisioningStatus
    \/ LoopCreateAgent
    \/ LoopProvisionAgent
    \/ LoopProvisionReturn

LoopSpec == Init /\ [][LoopNext]_vars

----------------------------------------------------------------------------
(* Properties *)

LifecycleOps == {"start_agent", "stop_agent", "pause_agent", "resume_agent"}

\* the edges of the agent state graph
GraphEdges ==
    {<<"draft", "provisioning">>, <<"provisioning", "active">>,
     <<"provisioning", "error">>, <<"active", "paused">>, <<"paused", "active">>,
     <<"active", "stopped">>, <<"paused", "stopped">>}
      \cup {<<s, "error">> : s \in AgentStatus}

\* the values the status of the agent record of the observed invocation has taken
StatusHistory ==
    IF last.op = "create_multi_channel_agent" THEN last.statuses
    ELSE IF last.op \in LifecycleOps /\ last.agent # Nothing
    THEN <<last.before.status, last.agent.status>>
    ELSE <<>>

\* C1: every change of an agent's status follows an edge of the state graph, and
\* an agent whose status is active was in provisioning at some earlier point.
C1_StatusGraph ==
    LET h == StatusHistory
    IN  /\ \A i \in 1..(Len(h) - 1) :
              h[i] # h[i + 1] => <<h[i], h[i + 1]>> \in GraphEdges
        /\ \A i \in 1..Len(h) :
              h[i] = "active" => \E j \in 1..(i - 1) : h[j] = "provisioning"

\* the statuses a lifecycle operation is valid from
ValidFrom(op) ==
    CASE op = "start_agent" -> {"draft", "stopped", "paused"}
      [] op = "pause_agent" -> {"active"}
      [] op = "resume_agent" -> {"paused"}
      [] OTHER -> AgentStatus

\* how a lifecycle operation ended
LifecycleOutcome ==
    IF last.agent = Nothing THEN "NotFoundError" ELSE "ok"

\* C2: start succeeds only from draft, stopped or paused, pause only from active,
\* resume only from paused; from any other status the operation fails with
\* ConflictError and the agent's status is unchanged.
C2_LifecycleGuards ==
    (last.op \in {"start_agent", "pause_agent", "resume_agent"}
        /\ last.before # Nothing)
    => IF last.before.status \in ValidFrom(last.op)
       THEN LifecycleOutcome = "ok"
       ELSE LifecycleOutcome = "ConflictError" /\ last.agent = last.before

\* the routing of request selected the agent of hint: the one dispatch went to that
\* vendor, and a success names that vendor and its agent
SelectedHinted(request, result) ==
    /\ Len(result.dispatched) = 1
    /\ result.dispatched[1].vendor_id = request.vendor_id
    /\ result.status_code = 200 =>
          /\ result.vendor_id = request.vendor_id
          /\ result.agent_id = <<"vendor-">> \o request.vendor_id

\* C3: a message that carries an explicit vendor hint is routed to the hinted
\* agent, whatever the directory lookup would return; every message a platform
\* webhook routes carries the vendor id of the path as its hint.
C3_HintIsAuthoritative ==
    /\ (last.op = "route_message" /\ Truthy(last.request.vendor_id))
          => SelectedHinted(last.request, last.result)
    /\ last.op = "platform_webhook" =>
          /\ Len(last.result.routed) =
                Cardinality({i \in 1..Len(last.messages) :
                               last.messages[i].text # "" /\ last.messages[i].from # None})
          /\ \A i \in 1..Len(last.result.routed) :
                /\ last.result.routed[i].request.vendor_id = last.vendor_id
                /\ SelectedHinted(last.result.routed[i].request,
                                  last.result.routed[i].result)

\* C3 witness: a hinted message was routed successfully while the directory
\* resolves its user to another vendor.
C3_Witness ==
    /\ last.op = "route_message"
    /\ Truthy(last.request.vendor_id)
    /\ last.directory # Nothing
    /\ last.directory.vendor_id # last.request.vendor_id
    /\ last.result.status_code = 200
    /\ last.result.vendor_id = last.request.vendor_id

\* C4: a message with no hint for which neither the directory nor inference
\* yields an agent ends with AgentNotFound and no dispatch to any backend handler.
C4_NoAgentNoDispatch ==
    /\ (last.op = "route_message" /\ ~Truthy(last.request.vendor_id)
          /\ last.directory = Nothing)
          => /\ last.result.status_code = 404
             /\ last.result.error = "agent_not_found"
             /\ last.result.dispatched = <<>>
    /\ (last.op \in {"connect_webhook", "elizaos_webhook"}
          /\ ~Truthy(last.result.agent_id))
          => \A i \in 1..Len(last.result.steps) :
                last.result.steps[i] # "handle_message"

\* the outcome kind a routing response reports
OutcomeKind(result) ==
    CASE result.status_code = 200 -> "success"
      [] result.status_code = 404 -> "AgentNotFound"
      [] result.status_code = 504 -> "UpstreamTimeout"
      [] result.status_code = 502 -> "UpstreamError"
      [] OTHER -> "InternalError"

\* C5: every routing attempt ends in one of success, UpstreamTimeout (deadline
\* exceeded), UpstreamError (any other backend failure) and AgentNotFound
\* (resolution failed), and no failure is reported as another kind.
C5_DistinctOutcomes ==
    last.op = "route_message" =>
        LET kind == OutcomeKind(last.result)
            resolved == Truthy(last.request.vendor_id) \/ last.directory # Nothing
        IN  /\ kind \in {"success", "UpstreamTimeout", "UpstreamError", "AgentNotFound"}
            /\ kind = "AgentNotFound" <=> ~resolved
            /\ kind = "UpstreamTimeout" <=> (resolved /\ last.outcome = "timeout")
            /\ kind = "success" <=> (resolved /\ last.outcome = "ok")

\* C6: a create with one or more channels whose provisioning all succeeds takes
\* the status through draft, provisioning, active, and getStatus then reports
\* every requested channel active.
C6_CreateSettlesActive ==
    (last.op = "create_multi_channel_agent" /\ Len(last.requested) >= 1
        /\ \A i \in 1..Len(last.requested) : last.failAt[i] = 0)
    => /\ last.statuses = <<"draft", "provisioning", "active">>
       /\ last.agent # Nothing /\ last.agent.status = "active"
       /\ last.status_after # Nothing
       /\ \A i \in 1..Len(last.requested) :
             \E j \in 1..Len(last.agent.channels) :
                /\ last.agent.channels[j].channel_type = last.requested[i]
                /\ last.agent.channels[j].status = "active"

\* C7: a create with a single channel whose provisioning fails leaves the agent
\* in status error, and the provisioning log read back for it holds exactly one
\* failed step.
C7_FailedCreateLogged ==
    (last.op = "create_multi_channel_agent" /\ Len(last.requested) = 1
        /\ last.failAt[1] # 0)
    => /\ last.status_after # Nothing
       /\ last.status_after.status = "error"
       /\ Cardinality({i \in 1..Len(last.logs_after) :
                          last.logs_after[i].status = "failed"}) = 1

\* C8: provisioning a channel type an agent already has creates no new channel
\* and no new external resource: an agent has at most one channel per type.
C8_OneChannelPerType ==
    last.op = "create_multi_channel_agent" =>
        /\ \A i, j \in 1..Len(last.calls) :
              last.calls[i].channel_type = last.calls[j].channel_type => i = j
        /\ last.agent # Nothing =>
              \A i, j \in 1..Len(last.agent.channels) :
                 last.agent.channels[i].channel_type
                     = last.agent.channels[j].channel_type => i = j

\* C9: the failure of one channel's provisioning never prevents the attempt of
\* another requested channel: every requested channel is attempted.
C9_SiblingsAttempted ==
    /\ last.op = "create_multi_channel_agent" =>
          /\ Len(last.calls) = Len(last.requested)
          /\ \A i \in 1..Len(last.calls) :
                last.calls[i].channel_type = last.requested[i]
    /\ (last.op = "provision_agent" /\ InSeq(voice_channels, last.requested))
          => last.result.provisioning_status.voca_connect # "absent"

\* the result of one requested channel in the results of a provisioning request
ChannelResult(channel, provisioning_results) ==
    IF channel \in social_media_channels THEN provisioning_results.voca_os
    ELSE IF channel \in voice_channels THEN provisioning_results.voca_connect
    ELSE "absent"

\* C10: the overall outcome of a provisioning request is the policy applied to
\* the per-channel results: under require-all success iff every requested
\* channel succeeded, under best-effort success iff at least one did.
C10_PolicyOutcome ==
    last.op = "provision_agent" =>
        LET results == last.result.provisioning_status
            ok(i) == ChannelResult(last.requested[i], results) = "success"
            success == last.result.status = "success"
                          /\ last.result.data_status = "active"
        IN  \/ success <=> (\A i \in 1..Len(last.requested) : ok(i))
            \/ success <=> (\E i \in 1..Len(last.requested) : ok(i))

\* the backend families of the six channel types
Telephony == {"voice", "sms"}

Conversational == {"whatsapp", "instagram", "twitter", "facebook"}

\* C18: each requested channel is provisioned through the backend of its
\* family and no other (telephony: voice, sms; conversational: whatsapp,
\* instagram, twitter, facebook), and no requested channel of these types is
\* left without a provisioning attempt.
C18_FamilyProvisioning ==
    /\ last.op = "create_multi_channel_agent" =>
          \A i \in 1..Len(last.calls) :
              last.calls[i].backend
                  = (IF last.calls[i].channel_type \in Telephony
                     THEN "aws_connect" ELSE "elizaos")
    /\ last.op = "provision_agent" =>
          LET results == last.result.provisioning_status
          IN  \A i \in 1..Len(last.requested) :
                  LET c == last.requested[i]
                  IN  /\ c \in Conversational =>
                            /\ results.posts = 1
                            /\ \E n \in 1..Len(results.platforms) :
                                   results.platforms[n] = c
                      /\ c \in Telephony =>
                            /\ results.voca_connect \in {"success", "failed"}
                            /\ \A n \in 1..Len(results.platforms) :
                                   results.platforms[n] # c

\* C19: a resolved inbound message is dispatched by exactly one backend call,
\* to the handler of the family of its channel: the telephony handler for
\* voice / sms and for what enters through the Connect webhook, the
\* conversational handler for whatsapp, instagram, twitter and facebook.
C19_FamilyDispatch ==
    (last.op \in {"connect_webhook", "elizaos_webhook"}
        /\ Truthy(last.result.agent_id))
    => /\ Cardinality({n \in 1..Len(last.result.steps) :
                          last.result.steps[n] = "handle_message"}) = 1
       /\ (last.op = "connect_webhook" \/ last.channel \in Telephony)
              => last.result.handler = "aws_connect"
       /\ (last.op = "elizaos_webhook" /\ last.channel \in Conversational)
              => last.result.handler = "elizaos"

----------------------------------------------------------------------------
(* Properties of the event loop *)

\* a stop of the agent that took effect
StopTookEffect(e) ==
    \/ e.op = "stop_agent" /\ e.agent # Nothing /\ e.agent.status = "stopped"
    \/ e.op = "deactivate_agent" /\ e.result.data_status = "inactive"

\* C11: once a manual stop of an agent has taken effect while the agent's
\* provisioning is in flight, no later completion of that provisioning sets
\* the agent's status to active.
C11_NoResurrection ==
    \A i, j, k \in 1..Len(trace) :
        (/\ i < j /\ j < k
         /\ trace[i].op = "provision_agent.post"
         /\ StopTookEffect(trace[j])
         /\ trace[k].op = "provision_agent.return"
         /\ trace[k].req = trace[i].req
         /\ trace[k].agent_id = trace[j].agent_id)
        => trace[k].result.data_status # "active"

IsWrite(e) == e.op = "update_context"

IsRead(e) == e.op = "get_agent_context"

\* the record a read returned shows value v under key k
Shows(context, k, v) ==
    \/ k \in DOMAIN context /\ context[k] = v
    \/ k \in DOMAIN context.context_data /\ context.context_data[k] = v

\* no write to the agent's context ran strictly between steps i and j
NoWriteBetween(agent_id, i, j) ==
    \A m \in (i + 1)..(j - 1) : ~(IsWrite(trace[m]) /\ trace[m].agent_id = agent_id)

\* C12: of two messages of one conversation, every step of the earlier one runs
\* before every step of the later one, and the context read after both (with
\* no further write) reflects the later message.
C12_ConversationSerialized ==
    \A a, b \in 1..Len(trace) :
        (/\ IsWrite(trace[a]) /\ IsWrite(trace[b])
         /\ trace[a].req < trace[b].req
         /\ trace[a].agent_id = trace[b].agent_id
         /\ trace[a].channel = trace[b].channel)
        => /\ \A i, j \in 1..Len(trace) :
                  (trace[i].req = trace[a].req /\ trace[j].req = trace[b].req) => i < j
           /\ \A r \in (b + 1)..Len(trace) :
                  (/\ IsRead(trace[r])
                   /\ trace[r].agent_id = trace[b].agent_id
                   /\ NoWriteBetween(trace[b].agent_id, b, r))
                  => \A k \in DOMAIN trace[b].update :
                         Shows(trace[r].context, k, trace[b].update[k])

\* C13: a read of an agent's context that starts after writes from two
\* different channels were committed shows both, the later over the earlier:
\* under every key written, the value of the last write committed before it.
C13_CrossChannelVisibility ==
    \A w1, w2, r \in 1..Len(trace) :
        (/\ w1 < w2 /\ w2 < r
         /\ IsWrite(trace[w1]) /\ IsWrite(trace[w2]) /\ IsRead(trace[r])
         /\ trace[w1].agent_id = trace[r].agent_id
         /\ trace[w2].agent_id = trace[r].agent_id
         /\ trace[w1].channel # trace[w2].channel)
        => \A w \in {w1, w2} : \A k \in DOMAIN trace[w].update :
               \E m \in w..(r - 1) :
                   /\ IsWrite(trace[m]) /\ trace[m].agent_id = trace[r].agent_id
                   /\ k \in DOMAIN trace[m].update
                   /\ \A n \in (m + 1)..(r - 1) :
                          ~(/\ IsWrite(trace[n])
                            /\ trace[n].agent_id = trace[r].agent_id
                            /\ k \in DOMAIN trace[n].update)
                   /\ Shows(trace[r].context, k, trace[m].update[k])

\* C14: a merge sets every key of the partial map and changes nothing else:
\* comparing the reads just before and just after one write, the keys of the
\* partial map show the given values, the other keys of the agent's context
\* are as before, and so is the context of any other agent.
C14_MergeFrame ==
    \A b, w, r \in 1..Len(trace) :
        (/\ b < w /\ w < r
         /\ IsRead(trace[b]) /\ IsWrite(trace[w]) /\ IsRead(trace[r])
         /\ trace[b].agent_id = trace[r].agent_id
         /\ \A m \in ((b + 1)..(r - 1)) \ {w} : ~IsWrite(trace[m]))
        => IF trace[w].agent_id = trace[r].agent_id
           THEN /\ \A k \in DOMAIN trace[w].update :
                       Shows(trace[r].context, k, trace[w].update[k])
                /\ \A k \in (DOMAIN trace[b].context.context_data)
                                \ DOMAIN trace[w].update :
                       /\ k \in DOMAIN trace[r].context.context_data
                       /\ trace[r].context.context_data[k]
                              = trace[b].context.context_data[k]
           ELSE trace[r].context = trace[b].context

\* the conversations stored for (agent, channel) before step j, in append order
Appended(agent_id, channel, j) ==
    LET stores == SelectSeq(SubSeq(trace, 1, j - 1),
                            LAMBDA e : /\ e.op = "store_conversation_history"
                                       /\ e.agent_id = agent_id
                                       /\ e.channel = channel)
    IN  [i \in 1..Len(stores) |-> stores[i].conversation]

LastN(seq, n) ==
    IF Len(seq) <= n THEN seq ELSE SubSeq(seq, Len(seq) - n + 1, Len(seq))

\* C15: after appends, the history of an (agent, channel) holds at most N
\* entries, and they are the N entries appended last for that channel, in
\* append order (N is the length the history is cut to, HistoryLimit).
C15_BoundedFifoHistory ==
    \A j \in 1..Len(trace) :
        trace[j].op = "get_conversation_history"
        => LET appended == Appended(trace[j].agent_id, trace[j].channel, j)
               history == trace[j].history
           IN  appended # <<>>
               => /\ Len(history) <= HistoryLimit
                  /\ [i \in 1..Len(history) |-> history[i].conversation]
                         = LastN(appended, HistoryLimit)

\* C16: a delete that reports success has first invoked the backend's
\* deprovision / stop for every channel of an active agent.
C16_DeleteCompensates ==
    \A j \in 1..Len(trace) :
        (/\ trace[j].op = "delete_agent"
         /\ trace[j].result.status_code = 204
         /\ trace[j].before # Nothing
         /\ trace[j].before.status = "active")
        => \A c \in 1..Len(trace[j].before.channels) :
               \E n \in 1..Len(trace[j].result.calls) :
                   trace[j].result.calls[n].channel_type = trace[j].before.channels[c]

Removals == {"delete_agent", "provisioning_delete_agent", "deprovision_agent"}

\* C17: when an agent is deleted or deprovisioned while its provisioning is in
\* flight, the provisioning ends marked failed (cancelled), not successful,
\* and leaves no external resource behind (the code has no teardown call, so
\* the VocaOS vendor must not have been created).
C17_CancellationTearsDown ==
    \A i, j, k \in 1..Len(trace) :
        (/\ i < j /\ j < k
         /\ trace[i].op = "provision_agent.post"
         /\ trace[j].op \in Removals
         /\ trace[k].op = "provision_agent.return"
         /\ trace[k].req = trace[i].req
         /\ trace[k].agent_id = trace[j].agent_id)
        => /\ trace[k].result.status # "success"
           /\ trace[k].result.provisioning_status.voca_os # "success"

----------------------------------------------------------------------------
(* Properties of the provisioning snapshot and log, of agent resolution and  *)
(* of creation without channels (specification Spec)                         *)

\* C21: the snapshot read for an agent reports progress
\* floor(100 * completed_channels / total_channels), a value in 0..100, and
\* current_step "finished" exactly when every requested channel is terminal
\* (active or failed).  completed_channels is taken either as the active or as
\* the terminal channels.
C21_SnapshotFromChannels ==
    (last.op = "create_multi_channel_agent" /\ Len(last.requested) > 0)
    => LET total == Len(last.requested)
           active == Cardinality({i \in 1..Len(last.calls) : ~last.calls[i].raised})
           terminal == Len(last.calls)
           snapshot == last.snapshot_after
       IN  /\ snapshot.progress \in 0..100
           /\ \E completed \in {active, terminal} :
                 snapshot.progress = (100 * completed) \div total
           /\ (snapshot.current_step = "finished") <=> (terminal = total)

\* C22: every provisioning attempt of a channel appends its start and its
\* success or failure to the agent's provisioning log, each entry carrying the
\* agent id and the channel id.
C22_AttemptsLogged ==
    last.op = "create_multi_channel_agent"
    => /\ Len(last.logs_after) >= 2 * Len(last.calls)
       /\ \A i \in 1..Len(last.calls) :
             \E n \in 1..Len(last.logs_after) :
                /\ "channel_id" \in DOMAIN last.logs_after[n]
                /\ last.logs_after[n].agent_id = last.agent_id
                /\ last.logs_after[n].channel_id = uuid4(i)

\* C23: resolution is a short-circuiting chain in a fixed order: with a hint
\* neither the directory lookup nor inference is invoked; the lookup is invoked
\* only without a hint, and first; inference is invoked only without a hint and
\* after a lookup that returned no match.
C23_ShortCircuitChain ==
    last.op = "route_message"
    => LET steps == last.result.steps
           hinted == Truthy(last.request.vendor_id)
       IN  /\ hinted => steps = <<>>
           /\ (\E n \in 1..Len(steps) : steps[n] = "lookup")
                 => (~hinted /\ steps[1] = "lookup")
           /\ (\E n \in 1..Len(steps) : steps[n] = "infer")
                 => (~hinted /\ last.directory = Nothing
                        /\ steps = <<"lookup", "infer">>)

\* a message without hint whose sender the directory matched: the lookup ran,
\* inference did not
C23_Witness ==
    /\ last.op = "route_message"
    /\ ~Truthy(last.request.vendor_id)
    /\ last.directory # Nothing
    /\ last.result.steps = <<"lookup">>

\* C24: a create with an empty channel list returns an agent in status draft
\* and calls no backend; the status moves to provisioning only when at least
\* one channel was requested.
C24_NoChannelsStaysDraft ==
    (last.op = "create_multi_channel_agent" /\ ~last.raised)
    => /\ Len(last.requested) = 0
             => (last.agent.status = "draft" /\ last.calls = <<>>)
       /\ (\E n \in 1..Len(last.statuses) : last.statuses[n] = "provisioning")
             => Len(last.requested) >= 1

----------------------------------------------------------------------------
(* Properties of the orchestrator's routing and lifecycle reads, of          *)
(* resolution under a failing directory and of the platform webhooks         *)
(* (specification Spec)                                                      *)

\* C25: a routed message is resolved (its agent's context loaded), then
\* dispatched to the handler, then written with its reply into the context;
\* the write comes only after the handler returned a reply, and a message
\* whose dispatch fails writes nothing.
C25_WriteAfterReply ==
    last.op \in {"connect_webhook", "elizaos_webhook"}
    => LET steps == last.result.steps
       IN  /\ steps[1] = "get_agent_context"
           /\ steps[2] = "handle_message"
           /\ \A n \in 1..Len(steps) :
                 steps[n] = "update_context"
                    => (n = 3 /\ ~last.result.raised /\ last.result.response # Nothing)
           /\ last.result.raised
                 => \A n \in 1..Len(steps) : steps[n] # "update_context"
           /\ ~last.result.raised => steps[Len(steps)] = "update_context"

\* a message whose handler raised: the webhook answers 500 and no context
\* write was made
C25_Witness ==
    /\ last.op = "elizaos_webhook"
    /\ last.outcome = "exception"
    /\ last.result.status_code = 500
    /\ last.result.steps = <<"get_agent_context", "handle_message">>

\* C27: after start, stop, pause or resume of an existing agent returned an
\* agent with status S, the next status read and the next get of that agent
\* report S.
C27_TransitionStored ==
    (last.op \in LifecycleOps /\ last.agent # Nothing)
    => /\ last.status_after # Nothing
       /\ last.status_after.status = last.agent.status
       /\ last.agent_after # Nothing
       /\ last.agent_after.status = last.agent.status

\* C28: when the request to the directory fails (exception, timeout, non-200
\* answer), resolution goes on to inference as after no match; nothing being
\* inferred, the outcome is agent-not-found with no dispatch, never an
\* upstream error.
C28_LookupFailureIsNoMatch ==
    (/\ last.op = "route_message"
     /\ ~Truthy(last.request.vendor_id)
     /\ looks_like_phone(last.request.user_id)
     /\ vocaos.status # "ok")
    => /\ last.result.steps = <<"lookup", "infer">>
       /\ last.result.status_code = 404
       /\ last.result.error = "agent_not_found"
       /\ last.result.dispatched = <<>>

\* a message of a phone-like sender, without hint, while the directory raises
C28_Witness ==
    /\ last.op = "route_message"
    /\ ~Truthy(last.request.vendor_id)
    /\ looks_like_phone(last.request.user_id)
    /\ vocaos.status = "exception"
    /\ last.result.status_code = 404

\* the messages of a payload that reach the router: those with text and sender
Routable(messages) == SelectSeq(messages, LAMBDA m : m.text # "" /\ m.from # None)

\* C29: the messages of a platform webhook's payload are routed one at a time
\* in payload order; a failure routing one does not end the batch; the webhook
\* answers success, and its responses hold one entry per message that was
\* routed successfully, in payload order.
C29_BatchSurvivesFailures ==
    last.op = "platform_webhook"
    => LET routable == Routable(last.messages)
           routed == last.result.routed
           succeeded == SelectSeq(routed, LAMBDA x : x.result.status_code = 200)
           responses == last.result.responses
       IN  /\ last.result.status = "success"
           /\ Len(routed) = Len(routable)
           /\ \A i \in 1..Len(routed) :
                 /\ routed[i].request.message_id = routable[i].id
                 /\ routed[i].request.message = routable[i].text
                 /\ routed[i].request.user_id = routable[i].from
           /\ Len(responses) = Len(succeeded)
           /\ \A i \in 1..Len(responses) :
                 /\ responses[i].user_id = succeeded[i].request.user_id
                 /\ responses[i].response = succeeded[i].result.response
                 /\ "message_id" \in DOMAIN responses[i]
                       => responses[i].message_id = succeeded[i].request.message_id

\* a WhatsApp payload of two messages: routing the first failed, the second
\* was routed and is the only entry of the responses
C29_Witness ==
    /\ last.op = "platform_webhook"
    /\ last.webhook = "whatsapp"
    /\ Len(last.result.routed) = 2
    /\ last.result.routed[1].result.status_code # 200
    /\ last.result.routed[2].result.status_code = 200
    /\ Len(last.result.responses) = 1
    /\ last.result.responses[1].message_id = 2

----------------------------------------------------------------------------
(* Properties of telephony provisioning (specification ConnectSpec)          *)

IsPrefix(s, t) == Len(s) <= Len(t) /\ \A i \in 1..Len(s) : s[i] = t[i]

\* C26: telephony provisioning runs create instance, create contact flow,
\* assign phone number, deploy function in this order, each only after the
\* one before succeeded; when a step fails no later step runs and the
\* provisioning reports failure.
C26_TelephonyStepsInOrder ==
    /\ last.op = "provision_connect_instance"
       => LET r == last.result
              order == <<"create_connect_instance", "create_contact_flow",
                         "assign_phone_number", "deploy_lambda_function">>
          IN  /\ IsPrefix(r.steps, order)
              /\ \A n \in 1..Len(r.steps) :
                    n < Len(r.steps) => last.outcomes[n] = "ok"
              /\ (\E n \in 1..Len(r.steps) : last.outcomes[n] # "ok")
                    => (~r.success /\ r.status_code = 500)
              /\ r.success => r.steps = order
    /\ last.op = "create_multi_channel_agent"
       => \A i \in 1..Len(last.calls) :
             last.calls[i].backend = "aws_connect"
             => LET order == <<"create_instance", "create_contact_flow",
                               "assign_phone_number", "deploy_lambda_functions">>
                IN  /\ IsPrefix(last.calls[i].steps, order)
                    /\ ~last.calls[i].raised => last.calls[i].steps = order
                    /\ last.calls[i].raised
                          => (/\ Len(last.calls[i].steps) < Len(order)
                              /\ last.raised /\ last.agent = Nothing)

\* a provisioning whose phone number assignment failed: the function was not
\* deployed and the answer is a failure
C26_Witness ==
    /\ last.op = "provision_connect_instance"
    /\ last.outcomes[3] # "ok"
    /\ last.result.steps = <<"create_connect_instance", "create_contact_flow",
                             "assign_phone_number">>
    /\ ~last.result.success

\* C30: deprovisioning a vendor without instance reports success and deletes
\* nothing; with an instance the teardown runs function, phone numbers,
\* contact flow, instance; the instance deletion is attempted also when
\* earlier steps fail with a client error, and success is reported only when
\* the instance deletion did not fail.
C30_TeardownReachesInstance ==
    (last.op = "deprovision_connect_instance" /\ last.lookup = "ok")
    => LET r == last.result
           exists == last.vendor_id \in last.before.instances
           order == <<"delete_lambda_function", "release_phone_number",
                      "delete_contact_flow", "delete_connect_instance">>
           called(c) == \E n \in 1..Len(r.calls) : r.calls[n] = c
       IN  /\ ~exists
                 => (/\ r.success
                     /\ r.steps = <<>>
                     /\ ~\E c \in {"delete_function", "release_phone_number",
                                   "delete_contact_flow", "delete_instance"} :
                            called(c))
           /\ exists => IsPrefix(r.steps, order)
           /\ (exists /\ \A n \in 1..3 : last.outcomes[n] \in {"ok", "client_error"})
                 => (r.steps = order /\ called("delete_instance"))
           /\ (exists /\ r.success)
                 => (called("delete_instance") /\ last.outcomes[4] = "ok")
           /\ (exists /\ called("delete_instance") /\ last.outcomes[4] # "ok")
                 => (~r.success /\ r.status_code = 500)

\* a teardown whose function deletion failed with a client error and that
\* went on to delete the instance
C30_Witness ==
    /\ last.op = "deprovision_connect_instance"
    /\ last.vendor_id \in last.before.instances
    /\ last.outcomes[1] = "client_error"
    /\ last.result.success
    /\ last.vendor_id \notin aws.instances

====
